---- MODULE Spec2Model ----
(***************************************************************************)
(* Model of cellprofiler/gui/namesubscriber.py:                            *)
(*   - align_twosided_items, the two-column menu label aligner;            *)
(*   - NameSubcriberComboBox, the annotated read-only combobox with its    *)
(*     right-click context menu.                                           *)
(*                                                                         *)
(* Text is modelled as a sequence of one-character strings, so that        *)
(* "%s%s%s" % (...) is real concatenation and GetTextExtent really sums    *)
(* glyph widths.  The file is Python 2 (wxPython classic): "/" on two      *)
(* ints is floor division.                                                 *)
(***************************************************************************)
EXTENDS Integers, Sequences, FiniteSets, TLC

VARIABLES
    platform,      \* wx.Platform
    font,          \* the metrics behind parent.GetTextExtent
    \* ---- one call of align_twosided_items ----
    items,         \* the labels of the menu items passed as `items`
    min_spacing,
    left_texts,
    right_texts,
    err,           \* the exception the call ended with, or "none"
    apc,           \* "ready" before the call, "done" after it
    \* ---- one NameSubcriberComboBox ----
    orig_choices,  \* self.orig_choices: sequence of <<name, annotation, num>>
    IDs,           \* self.IDs
    Selection,     \* self.combo_dlg.Selection (0-based, -1 = wx.NOT_FOUND)
    Label,         \* self.annotation_dlg.Label
    menu,          \* the context menu while it is popped up, else NoMenu
    nextId         \* the next value wx.NewId() hands out

alignVars == <<items, min_spacing, left_texts, right_texts, err, apc>>
widgetVars == <<orig_choices, IDs, Selection, Label, menu, nextId>>
vars == <<platform, font, items, min_spacing, left_texts, right_texts, err, apc,
          orig_choices, IDs, Selection, Label, menu, nextId>>

(***************************************************************************)
(* Bounds                                                                  *)
(***************************************************************************)
MaxItems == 2       \* rows (menu items, left texts, right texts) per call
MaxTextLen == 2     \* characters per left / right text
MaxSpacing == 1     \* min_spacing ranges over 0..MaxSpacing
MaxChoices == 2     \* choices per choice list of the combobox
MaxNum == 2         \* module numbers range over 1..MaxNum

(***************************************************************************)
(* Text helpers                                                            *)
(***************************************************************************)
Min2(a, b) == IF a <= b THEN a ELSE b

\* ' ' * n  (Python: the empty string when n <= 0)
Spaces(n) == [k \in 1..n |-> " "]

\* the texts of at most n characters, all characters c
TextsOf(c, n) == { [k \in 1..m |-> c] : m \in 0..n }

\* the sequences of at most n elements of S
SeqUpTo(S, n) == UNION { [1..m -> S] : m \in 0..n }

RECURSIVE CountSpaces(_)
CountSpaces(s) ==
    IF s = <<>> THEN 0
    ELSE (IF Head(s) = " " THEN 1 ELSE 0) + CountSpaces(Tail(s))

(***************************************************************************)
(* parent.GetTextExtent(s)[0]: the toolkit's measure of a string.  A font  *)
(* is a fixed padding the toolkit adds per string, the advance of a space  *)
(* and the advance of any other glyph.                                     *)
(***************************************************************************)
Fonts == [pad : {0, 1}, sp : {-1, 0, 1, 2}, ch : {1}]

\* measureText(s) = len(s)
LenFont == [pad |-> 0, sp |-> 1, ch |-> 1]

RECURSIVE GlyphSum(_, _)
GlyphSum(f, s) ==
    IF s = <<>> THEN 0
    ELSE (IF Head(s) = " " THEN f.sp ELSE f.ch) + GlyphSum(f, Tail(s))

GetTextExtent(f, s) == f.pad + GlyphSum(f, s)

(***************************************************************************)
(* align_twosided_items                                                    *)
(***************************************************************************)
MSW == "__WXMSW__"
Platforms == {MSW, "__WXGTK__"}

\* the label every menu item carries before it is aligned
Filler == <<"filler">>

\* Python 2 int / int for a non-zero divisor: the floor of the quotient
PyFloorDiv(a, b) ==
    IF b > 0 THEN a \div b
    ELSE (-a) \div (-b)

\* len(zip(left_texts, right_texts))
ZipLen(left, right) == Min2(Len(left), Len(right))

\* a label that pads with a space where the code puts the tab
TabLabel_Space(left, right) == left \o <<" ">> \o right

\* "%s\t%s" % (left, right)
TabLabel(left, right) == left \o <<"\t">> \o right

\* widths: the measured width of every zipped pair at the minimum spacing
Widths(f, ms, left, right) ==
    [k \in 1..ZipLen(left, right) |->
        GetTextExtent(f, left[k] \o Spaces(ms) \o right[k])]

\* max(widths), widths not empty
MaxOf(ws) == CHOOSE m \in {ws[k] : k \in DOMAIN ws} : \A k \in DOMAIN ws : ws[k] <= m

\* a space width taken from one measurement, toolkit padding included
SpaceWidth_OneSpace(f) == GetTextExtent(f, <<" ">>)

\* spacewidth
SpaceWidth(f) == GetTextExtent(f, <<" ", " ">>) - GetTextExtent(f, <<" ">>)

\* padding that grows with a row's own width
NumSpaces_OwnWidth(ms, maxwidth, initial_width, spacewidth) ==
    ms + PyFloorDiv(initial_width, spacewidth)

\* padding rounded up instead of down
NumSpaces_RoundUp(ms, maxwidth, initial_width, spacewidth) ==
    ms - PyFloorDiv(initial_width - maxwidth, spacewidth)

\* numspaces
NumSpaces(ms, maxwidth, initial_width, spacewidth) ==
    ms + PyFloorDiv(maxwidth - initial_width, spacewidth)

\* "%s%s%s" % (left, ' ' * numspaces, right)
SpaceLabel(left, numspaces, right) == left \o Spaces(numspaces) \o right

\* The whole call: the labels of `its` afterwards and the exception raised.
\* An exception is raised before the first SetItemLabel, so it leaves the
\* labels as they were.
AlignTwosidedItems(pf, f, its, ms, left, right) ==
    IF its = <<>> THEN [labels |-> its, err |-> "none"]
    ELSE IF pf = MSW THEN
        [labels |-> [k \in 1..Len(its) |->
                        IF k <= ZipLen(left, right)
                        THEN TabLabel(left[k], right[k]) ELSE its[k]],
         err |-> "none"]
    ELSE
        LET widths == Widths(f, ms, left, right) IN
        IF widths = <<>> THEN [labels |-> its, err |-> "ValueError"]
        ELSE IF SpaceWidth(f) = 0 THEN [labels |-> its, err |-> "ZeroDivisionError"]
        ELSE
            [labels |-> [k \in 1..Len(its) |->
                            IF k <= Len(widths)
                            THEN SpaceLabel(left[k],
                                            NumSpaces(ms, MaxOf(widths), widths[k],
                                                      SpaceWidth(f)),
                                            right[k])
                            ELSE its[k]],
             err |-> "none"]

(***************************************************************************)
(* NameSubcriberComboBox                                                   *)
(***************************************************************************)
Names == {<<"a">>, <<"b">>}
Annotations == {<<>>, <<"P">>, <<"Q">>}
Nums == 1..MaxNum
\* a choice is (Name, Parent, modulenum)
Choices == Names \X Annotations \X Nums
ChoiceLists == SeqUpTo(Choices, MaxChoices)
\* the strings handed to the constructor's value and to SetValue
Values == Names \cup {<<>>}

\* the default of align_twosided_items' min_spacing parameter
DefaultMinSpacing == 8

\* wx.NOT_FOUND: the Selection of a combobox with no item selected
NOT_FOUND == -1

\* the real combobox measures text with a real font: a space advances
WidgetFonts == {f \in Fonts : f.sp > 0}

NoMenu == [all_menu |-> <<>>, submenus |-> <<>>, labels |-> <<>>]

\* [name for name, _, _ in choices]
NamesOf(choices) == [k \in 1..Len(choices) |-> choices[k][1]]

\* combo_dlg.Value = value on a wx.CB_READONLY combobox: the first item with
\* that string becomes the selection; a string that is no item is ignored.
ComboSetValue(its, sel, value) ==
    IF \E k \in 1..Len(its) : its[k] = value
    THEN (CHOOSE k \in 1..Len(its) :
            /\ its[k] = value
            /\ \A j \in 1..(k - 1) : its[j] # value) - 1
    ELSE sel

\* combo_dlg.Value read: the selected item's string, '' with no selection
ComboGetValue(its, sel) == IF sel = NOT_FOUND THEN <<>> ELSE its[sel + 1]

\* Python's seq[i] for -len(seq) <= i < len(seq): a negative i counts from the end
PyIndex(seq, i) == IF i >= 0 THEN seq[i + 1] ELSE seq[Len(seq) + i + 1]

DigitChars == <<"0", "1", "2", "3", "4", "5", "6", "7", "8", "9">>

RECURSIVE Digits(_)
Digits(n) ==
    IF n < 10 THEN <<DigitChars[n + 1]>>
    ELSE Digits(n \div 10) \o <<DigitChars[(n % 10) + 1]>>

\* "%02d" % n, n >= 0
Fmt02d(n) == IF n < 10 THEN <<"0">> \o Digits(n) ELSE Digits(n)

\* '(from %s #%02d)' % (ch[1], ch[2])
FromLabel(annotation, num) ==
    <<"(", "f", "r", "o", "m", " ">> \o annotation \o <<" ", "#">>
        \o Fmt02d(num) \o <<")">>

\* update_annotation: the Label it leaves
UpdateAnnotation(choices, sel) ==
    IF choices = <<>> THEN <<>>
    ELSE LET ch == PyIndex(choices, sel) IN
         IF ch[2] # <<>> THEN FromLabel(ch[2], ch[3]) ELSE <<>>

\* the code point order of the characters of names and annotations
Ord(c) ==
    CASE c = "P" -> 80
      [] c = "Q" -> 81
      [] c = "a" -> 97
      [] c = "b" -> 98

\* Python's str < str
RECURSIVE StrLess(_, _)
StrLess(s, t) ==
    IF t = <<>> THEN FALSE
    ELSE IF s = <<>> THEN TRUE
    ELSE IF Head(s) # Head(t) THEN Ord(Head(s)) < Ord(Head(t))
    ELSE StrLess(Tail(s), Tail(t))

\* Python's tuple < tuple on (num, name, annotation, num, id)
ChoiceTupleLess(x, y) ==
    \/ x[1] < y[1]
    \/ /\ x[1] = y[1]
       /\ \/ StrLess(x[2], y[2])
          \/ /\ x[2] = y[2]
             /\ \/ StrLess(x[3], y[3])
                \/ /\ x[3] = y[3]
                   /\ x[5] < y[5]

\* Python's tuple < tuple on (num, annotation)
KeyLess(x, y) == x[1] < y[1] \/ (x[1] = y[1] /\ StrLess(x[2], y[2]))

\* sorted(...) of distinct (num, name, annotation, num, id) tuples
RECURSIVE SortedChoiceTuples(_)
SortedChoiceTuples(S) ==
    IF S = {} THEN <<>>
    ELSE LET m == CHOOSE x \in S : \A y \in S \ {x} : ChoiceTupleLess(x, y)
         IN <<m>> \o SortedChoiceTuples(S \ {m})

\* sorted(submenus.keys())
RECURSIVE SortedKeys(_)
SortedKeys(S) ==
    IF S = {} THEN <<>>
    ELSE LET m == CHOOSE x \in S : \A y \in S \ {x} : KeyLess(x, y)
         IN <<m>> \o SortedKeys(S \ {m})

\* choices_sorted_by_num: (name, annotation, num, id), sorted; zip pairs the
\* choices with the ids and stops at the shorter of the two
ChoicesSortedByNum(choices, ids) ==
    LET n == Min2(Len(choices), Len(ids))
        tuples == { <<choices[k][3], choices[k][1], choices[k][2],
                      choices[k][3], ids[k]>> : k \in 1..n }
        sorted == SortedChoiceTuples(tuples)
    IN [k \in 1..Len(sorted) |->
            <<sorted[k][2], sorted[k][3], sorted[k][4], sorted[k][5]>>]

\* "(%s #%02d)" % (annotation, num) if annotation else ""
RightText(annotation, num) ==
    IF annotation # <<>>
    THEN <<"(">> \o annotation \o <<" ", "#">> \o Fmt02d(num) \o <<")">>
    ELSE <<>>

\* Python's tuple == str: never equal
TupleEqualsStr(key, str) == FALSE

\* `annotation not in submenus`: the keys of submenus are (num, annotation)
\* tuples and annotation is a string
AnnotationNotInSubmenus(annotation, subs) ==
    \A key \in DOMAIN subs : ~TupleEqualsStr(key, annotation)

\* the loop that fills submenus, a map from (num, annotation) to the entries
\* of that key's wx.Menu
RECURSIVE BuildSubmenus(_, _)
BuildSubmenus(cs, subs) ==
    IF cs = <<>> THEN subs
    ELSE
        LET c == Head(cs)
            key == <<c[3], c[2]>>
            entry == [id |-> c[4], label |-> c[1]]
            \* submenus[num, annotation] = wx.Menu() when the test holds
            fresh == IF AnnotationNotInSubmenus(c[2], subs) THEN <<>> ELSE subs[key]
        IN IF c[2] = <<>> THEN BuildSubmenus(Tail(cs), subs)
           ELSE BuildSubmenus(Tail(cs),
                    [k \in DOMAIN subs \cup {key} |->
                        IF k = key THEN Append(fresh, entry) ELSE subs[k]])

\* right_menu up to PopupMenu: the menu it builds, and the exception of the
\* first align_twosided_items call that raises, if any
BuildMenu(pf, f, choices, ids) ==
    LET cs == ChoicesSortedByNum(choices, ids)
        a1 == AlignTwosidedItems(pf, f, [k \in 1..Len(cs) |-> Filler],
                  DefaultMinSpacing,
                  [k \in 1..Len(cs) |-> cs[k][1]],
                  [k \in 1..Len(cs) |-> RightText(cs[k][2], cs[k][3])])
        subs == BuildSubmenus(cs, <<>>)
        keys == SortedKeys(DOMAIN subs)
        a2 == AlignTwosidedItems(pf, f, [k \in 1..(1 + Len(keys)) |-> Filler],
                  DefaultMinSpacing,
                  <<<<"A", "l", "l">>>> \o [k \in 1..Len(keys) |-> keys[k][2]],
                  <<<<>>>> \o [k \in 1..Len(keys) |->
                                    <<"#">> \o Fmt02d(keys[k][1])])
    IN [menu |-> [all_menu |-> [k \in 1..Len(cs) |->
                                   [id |-> cs[k][4], label |-> a1.labels[k]]],
                  submenus |-> [k \in 1..Len(keys) |->
                                   [key |-> keys[k], entries |-> subs[keys[k]]]],
                  labels |-> a2.labels],
        err |-> IF a1.err # "none" THEN a1.err ELSE a2.err]

\* self.IDs.index(id), 0-based
IndexOf(ids, id) == (CHOOSE k \in 1..Len(ids) : ids[k] = id) - 1

\* the ids of the entries of the popped-up menu
MenuIds(m) ==
    {m.all_menu[k].id : k \in 1..Len(m.all_menu)}
    \cup UNION {{m.submenus[k].entries[j].id : j \in 1..Len(m.submenus[k].entries)} :
                    k \in 1..Len(m.submenus)}

\* __init__(annotation, choices, value): the MinSize line takes max() over the
\* choices, so construction only succeeds with a non-empty choice list
Init ==
    /\ platform \in Platforms
    /\ font \in WidgetFonts
    /\ \E choices \in ChoiceLists \ {<<>>}, value \in Values :
        /\ orig_choices = choices
        /\ IDs = [k \in 1..Len(choices) |-> k]
        /\ nextId = Len(choices) + 1
        /\ Selection = ComboSetValue(NamesOf(choices), NOT_FOUND, value)
        /\ Label = UpdateAnnotation(choices,
                        ComboSetValue(NamesOf(choices), NOT_FOUND, value))
    /\ menu = NoMenu
    /\ items = <<>>
    /\ min_spacing = DefaultMinSpacing
    /\ left_texts = <<>>
    /\ right_texts = <<>>
    /\ err = "none"
    /\ apc = "ready"

\* the user picks item i of the drop-down; wx sets Selection and fires
\* EVT_COMBOBOX
choice_made ==
    /\ menu = NoMenu
    /\ \E i \in 0..(Len(orig_choices) - 1) :
        /\ Selection' = i
        /\ Label' = UpdateAnnotation(orig_choices, i)
    /\ UNCHANGED <<platform, font, orig_choices, IDs, menu, nextId>>
    /\ UNCHANGED alignVars

\* EVT_RIGHT_DOWN: the context menu is built and popped up (PopupMenu is
\* modal); an exception while building it leaves the widget as it was
right_menu ==
    /\ menu = NoMenu
    /\ LET r == BuildMenu(platform, font, orig_choices, IDs) IN
        menu' = IF r.err = "none" THEN r.menu ELSE NoMenu
    /\ UNCHANGED <<platform, font, orig_choices, IDs, Selection, Label, nextId>>
    /\ UNCHANGED alignVars

\* EVT_MENU for an entry of the popped-up menu, then menu.Destroy()
menu_selected ==
    /\ menu # NoMenu
    /\ \E id \in MenuIds(menu) :
        /\ Selection' = IndexOf(IDs, id)
        /\ Label' = UpdateAnnotation(orig_choices, IndexOf(IDs, id))
    /\ menu' = NoMenu
    /\ UNCHANGED <<platform, font, orig_choices, IDs, nextId>>
    /\ UNCHANGED alignVars

\* the popped-up menu is dismissed without a selection, then menu.Destroy()
menu_dismissed ==
    /\ menu # NoMenu
    /\ menu' = NoMenu
    /\ UNCHANGED <<platform, font, orig_choices, IDs, Selection, Label, nextId>>
    /\ UNCHANGED alignVars

\* Items = choices.  Assigning combo_dlg.Items clears the selection.
SetItems ==
    /\ menu = NoMenu
    /\ \E choices \in ChoiceLists :
        LET current == ComboGetValue(NamesOf(orig_choices), Selection)
            sel == ComboSetValue(NamesOf(choices), NOT_FOUND, current)
        IN /\ orig_choices' = choices
           /\ Selection' = sel
           /\ Label' = UpdateAnnotation(choices, sel)
    /\ UNCHANGED <<platform, font, IDs, menu, nextId>>
    /\ UNCHANGED alignVars

\* Value = value
SetValue ==
    /\ menu = NoMenu
    /\ \E value \in Values :
        LET sel == ComboSetValue(NamesOf(orig_choices), Selection, value) IN
        /\ Selection' = sel
        /\ Label' = UpdateAnnotation(orig_choices, sel)
    /\ UNCHANGED <<platform, font, orig_choices, IDs, menu, nextId>>
    /\ UNCHANGED alignVars

Next ==
    \/ choice_made
    \/ right_menu
    \/ menu_selected
    \/ menu_dismissed
    \/ SetItems
    \/ SetValue

Spec == Init /\ [][Next]_vars

(***************************************************************************)
(* One call of align_twosided_items on drawn inputs                        *)
(***************************************************************************)
LeftTexts == TextsOf("a", MaxTextLen)
RightTexts == TextsOf("x", MaxTextLen)

InitAlign ==
    /\ platform \in Platforms
    /\ font \in Fonts
    /\ \E n \in 0..MaxItems : items = [k \in 1..n |-> Filler]
    /\ min_spacing \in 0..MaxSpacing
    /\ left_texts \in SeqUpTo(LeftTexts, MaxItems)
    /\ right_texts \in SeqUpTo(RightTexts, MaxItems)
    /\ err = "none"
    /\ apc = "ready"
    /\ orig_choices = <<>>
    /\ IDs = <<>>
    /\ Selection = NOT_FOUND
    /\ Label = <<>>
    /\ menu = NoMenu
    /\ nextId = 1

Align ==
    /\ apc = "ready"
    /\ LET r == AlignTwosidedItems(platform, font, items, min_spacing,
                                   left_texts, right_texts) IN
        /\ items' = r.labels
        /\ err' = r.err
    /\ apc' = "done"
    /\ UNCHANGED <<platform, font, min_spacing, left_texts, right_texts>>
    /\ UNCHANGED widgetVars

NextAlign == Align

SpecAlign == InitAlign /\ [][NextAlign]_vars

(***************************************************************************)
(* Properties of align_twosided_items (checked under SpecAlign)            *)
(***************************************************************************)
\* the call was handed one left and one right text per item
PairsInput == Len(left_texts) = Len(items) /\ Len(right_texts) = Len(items)

Called == apc = "done"

Rows == 1..Len(items)

\* the quantities of the written algorithm, from the measure alone
NaturalWidth(i) ==
    GetTextExtent(font, left_texts[i] \o Spaces(min_spacing) \o right_texts[i])

MaxWidth == CHOOSE m \in {NaturalWidth(i) : i \in Rows} :
                \A i \in Rows : NaturalWidth(i) <= m

SpaceUnit == GetTextExtent(font, <<" ", " ">>) - GetTextExtent(font, <<" ">>)

Abs(x) == IF x < 0 THEN -x ELSE x

\* floor(d / s) for s # 0: the integer q with q <= d/s < q + 1
FloorQuot(d, s) ==
    CHOOSE q \in (-Abs(d))..Abs(d) :
        IF s > 0 THEN q * s <= d /\ d < (q + 1) * s
        ELSE q * s >= d /\ d > (q + 1) * s

\* C1: in SpacePadded mode every label i of a non-empty call is
\* left[i] + N_i spaces + right[i], N_i = floor(minSpacing + (maxWidth - w_i) /
\* spaceUnit), wherever that quotient is defined (spaceUnit # 0).
C1_SpacePaddedLabels ==
    (Called /\ platform # MSW /\ items # <<>> /\ PairsInput /\ SpaceUnit # 0) =>
        \A i \in Rows :
            items[i] = left_texts[i]
                        \o Spaces(min_spacing
                                  + FloorQuot(MaxWidth - NaturalWidth(i), SpaceUnit))
                        \o right_texts[i]

\* a two-row call whose rows differ in width by no multiple of the space unit
C1_Witness ==
    /\ Called /\ platform # MSW /\ PairsInput /\ Len(items) = 2
    /\ SpaceUnit = 2
    /\ (MaxWidth - NaturalWidth(1)) % 2 = 1
    /\ items[1] # Filler /\ items[2] # Filler
    /\ CountSpaces(items[1]) > CountSpaces(items[2])

\* C2: in TabDelimited mode every label i of a non-empty call is exactly
\* left[i] + TAB + right[i], whatever min_spacing and the text measure are.
C2_TabDelimitedLabels ==
    (Called /\ platform = MSW /\ items # <<>> /\ PairsInput) =>
        \A i \in Rows : items[i] = left_texts[i] \o <<"\t">> \o right_texts[i]

\* a two-row tab-delimited call with a non-zero min_spacing and a font whose
\* space unit is zero
C2_Witness ==
    /\ Called /\ platform = MSW /\ PairsInput /\ Len(items) = 2
    /\ min_spacing > 0 /\ SpaceUnit = 0
    /\ left_texts[1] # left_texts[2]
    /\ items[1] # Filler /\ items[2] # Filler

\* label i is built from pair i's texts: a tab or some run of spaces between
IsLabelOfPair(label, i) ==
    \/ label = left_texts[i] \o <<"\t">> \o right_texts[i]
    \/ \E n \in 0..(Len(label)) :
          label = left_texts[i] \o Spaces(n) \o right_texts[i]

\* C3: for every sequence of pairs, empty or not, in both modes, the call
\* completes without error and leaves exactly one label per pair, label i
\* built from pair i.
C3_OneLabelPerPair ==
    (Called /\ PairsInput) =>
        /\ err = "none"
        /\ \A i \in Rows : IsLabelOfPair(items[i], i)

\* C4: a call (on at least one item) whose left_texts and right_texts differ
\* in length fails with InvalidArgument and sets no label.
C4_MismatchRejected ==
    (Called /\ items # <<>> /\ Len(left_texts) # Len(right_texts)) =>
        /\ err = "InvalidArgument"
        /\ \A i \in Rows : items[i] = Filler

\* C5: in SpacePadded mode a zero or negative space unit does not make the
\* call fail, and every row is padded with exactly min_spacing spaces.
C5_DegenerateClamped ==
    (Called /\ platform # MSW /\ items # <<>> /\ PairsInput /\ SpaceUnit <= 0) =>
        /\ err = "none"
        /\ \A i \in Rows :
              items[i] = left_texts[i] \o Spaces(min_spacing) \o right_texts[i]

\* the call the monotonicity statements are about: space padded, measured by
\* len()
LenMeasured ==
    Called /\ platform # MSW /\ font = LenFont /\ PairsInput /\ err = "none"

\* C6 as written: with measureText = len, a pair whose left text is shorter
\* gets at least as many padding spaces.
C6_ShorterLeftMorePadding ==
    LenMeasured =>
        \A A, B \in Rows :
            Len(left_texts[A]) < Len(left_texts[B]) =>
                CountSpaces(items[A]) >= CountSpaces(items[B])

\* C6 amended: with measureText = len, a pair whose left and right text
\* together are no longer than another pair's gets at least as many padding
\* spaces (so in particular when its left text is shorter and its right text
\* is no longer).
C6_ShorterPairMorePadding ==
    LenMeasured =>
        \A A, B \in Rows :
            Len(left_texts[A]) + Len(right_texts[A])
                <= Len(left_texts[B]) + Len(right_texts[B]) =>
                CountSpaces(items[A]) >= CountSpaces(items[B])

\* two rows, the first with the shorter left text and strictly more padding
C6_Witness ==
    /\ LenMeasured /\ Len(items) = 2
    /\ Len(left_texts[1]) < Len(left_texts[2])
    /\ Len(right_texts[1]) <= Len(right_texts[2])
    /\ CountSpaces(items[1]) > CountSpaces(items[2])

\* the call the alignment statements are about: space padded, a font in which
\* every glyph advances
PositivelyMeasured ==
    /\ Called /\ platform # MSW /\ items # <<>> /\ PairsInput
    /\ SpaceUnit > 0 /\ err = "none"

\* the padding of label i: what stands between the left and the right text
PaddingOf(i) == Spaces(Len(items[i]) - Len(left_texts[i]) - Len(right_texts[i]))

\* the offset at which the right text of row i starts
RightStart(i) == GetTextExtent(font, left_texts[i] \o PaddingOf(i))

\* the widest natural left column plus the minimum spacing
LeftColumn ==
    CHOOSE m \in {GetTextExtent(font, left_texts[i] \o Spaces(min_spacing)) : i \in Rows} :
        \A i \in Rows : GetTextExtent(font, left_texts[i] \o Spaces(min_spacing)) <= m

\* C7 as written: the right texts of all rows start at the same offset to
\* within less than one space unit, namely at the widest left text plus
\* min_spacing spaces.
C7_RightStartsAligned ==
    PositivelyMeasured =>
        /\ \A i \in Rows : LeftColumn - SpaceUnit < RightStart(i)
                           /\ RightStart(i) < LeftColumn + SpaceUnit
        /\ \A i, j \in Rows : RightStart(i) - RightStart(j) < SpaceUnit

\* C7 amended: the labels of all rows END at the same offset to within less
\* than one space unit: each padded label measures more than maxWidth -
\* spaceUnit and at most maxWidth, the widest row at min_spacing.
C7_RightEndsAligned ==
    PositivelyMeasured =>
        \A i \in Rows :
            /\ MaxWidth - SpaceUnit < GetTextExtent(font, items[i])
            /\ GetTextExtent(font, items[i]) <= MaxWidth

\* two rows whose widths differ by no multiple of the space unit, and whose
\* right texts differ in length
C7_Witness ==
    /\ PositivelyMeasured /\ Len(items) = 2
    /\ SpaceUnit = 2
    /\ (MaxWidth - NaturalWidth(1)) % 2 = 1
    /\ Len(right_texts[1]) # Len(right_texts[2])
    /\ GetTextExtent(font, items[1]) = MaxWidth - 1

(***************************************************************************)
(* Properties of NameSubcriberComboBox (checked under Spec)                *)
(***************************************************************************)
\* C8: after construction and after every operation the annotation label is
\* derived from the current selection: '(from A #NN)' when the selected item is
\* a choice with non-empty annotation A, the empty string otherwise, also when
\* no item is selected.
C8_LabelFollowsSelection ==
    Label = IF /\ Selection \in 0..(Len(orig_choices) - 1)
               /\ orig_choices[Selection + 1][2] # <<>>
            THEN FromLabel(orig_choices[Selection + 1][2],
                           orig_choices[Selection + 1][3])
            ELSE <<>>

\* the choices (by position) whose key is (num, annotation)
ChoicesWithKey(key) ==
    {k \in 1..Len(orig_choices) :
        orig_choices[k][3] = key[1] /\ orig_choices[k][2] = key[2]}

AnnotatedKeys ==
    {<<orig_choices[k][3], orig_choices[k][2]>> : k \in
        {j \in 1..Len(orig_choices) : orig_choices[j][2] # <<>>}}

\* C9: the popped-up menu has exactly one submenu per (num, annotation) key
\* with a non-empty annotation, that submenu has one entry for every choice
\* with that key, and the submenus are in ascending key order.
C9_SubmenusGroupByKey ==
    (menu # NoMenu /\ Len(IDs) = Len(orig_choices)) =>
        /\ \A key \in AnnotatedKeys :
              /\ Cardinality({k \in 1..Len(menu.submenus) :
                                  menu.submenus[k].key = key}) = 1
              /\ \A k \in 1..Len(menu.submenus) :
                    menu.submenus[k].key = key =>
                        /\ Len(menu.submenus[k].entries)
                              = Cardinality(ChoicesWithKey(key))
                        /\ {menu.submenus[k].entries[j].id :
                                j \in 1..Len(menu.submenus[k].entries)}
                              = {IDs[c] : c \in ChoicesWithKey(key)}
        /\ \A k \in 1..Len(menu.submenus) : menu.submenus[k].key \in AnnotatedKeys
        /\ \A j, k \in 1..Len(menu.submenus) :
              j < k => KeyLess(menu.submenus[j].key, menu.submenus[k].key)

\* C10: there is exactly one menu id per current choice, so the 'All' submenu
\* of the popped-up menu has exactly one entry for every choice in Items.
C10_OneIdPerChoice ==
    /\ Len(IDs) = Len(orig_choices)
    /\ menu # NoMenu =>
          /\ Len(menu.all_menu) = Len(orig_choices)
          /\ \A c \in 1..Len(orig_choices) :
                Cardinality({k \in 1..Len(menu.all_menu) :
                                IndexOf(IDs, menu.all_menu[k].id) = c - 1}) = 1

====
